---- MODULE Spec2Model ----
(***************************************************************************)
(* Model of runner.py: the command-line entry point main(), the test       *)
(* runner run(), the exceptions it raises, and the line diff               *)
(* (difflib.Differ.compare) whose length decides each fixture's outcome.   *)
(*                                                                         *)
(* Text is modelled as sequences of one-character strings, so that         *)
(* splitting, stripping, name substitution and message formatting are      *)
(* computed rather than assumed.  Indices of the difflib operators are     *)
(* 0-based and half-open, as in the Python code.                           *)
(***************************************************************************)
EXTENDS Integers, Sequences, FiniteSets, TLC

----------------------------------------------------------------------------
(* Bounds of the model.                                                    *)

\* Number of fixture identifiers that may occur in the exercise directory.
MaxFixtures == 2
\* Number of times the program is started on the same, unchanged directory.
MaxRuns == 2
\* Largest number of lines of a candidate output / expected-output file in
\* the specification SpecDiff, which explores the comparison.
MaxLines == 3

----------------------------------------------------------------------------
(* Text helpers.                                                           *)

NL == "\n"
Whitespace == {" ", NL}

\* s[i] of Python (0-based).
At(s, i) == s[i + 1]

\* s[lo:hi] of Python.
Slice(s, lo, hi) == SubSeq(s, lo + 1, hi)

\* c * n of Python: the character c repeated n times.
Repeat(c, n) == [x \in 1..n |-> c]

RECURSIVE Concat(_)
\* "".join(parts)
Concat(parts) ==
  IF parts = <<>> THEN <<>> ELSE Head(parts) \o Concat(Tail(parts))

RECURSIVE lstrip(_)
lstrip(s) ==
  IF s # <<>> /\ Head(s) \in Whitespace THEN lstrip(Tail(s)) ELSE s

RECURSIVE rstrip(_)
rstrip(s) ==
  IF s # <<>> /\ s[Len(s)] \in Whitespace
    THEN rstrip(SubSeq(s, 1, Len(s) - 1))
    ELSE s

\* str.strip(): leading and trailing whitespace removed.
strip(s) == rstrip(lstrip(s))

\* Position (1-based) of the first line terminator of s, 0 if there is none.
FirstNL(s) ==
  IF \E p \in 1..Len(s) : s[p] = NL
    THEN CHOOSE p \in 1..Len(s) : s[p] = NL /\ \A q \in 1..(p - 1) : s[q] # NL
    ELSE 0

\* Position (1-based) of the first "/" of s (s contains one).
FirstSep(s) == CHOOSE p \in 1..Len(s) : s[p] = "/" /\ \A q \in 1..(p - 1) : s[q] # "/"

RECURSIVE splitlines(_)
\* str.splitlines(): the lines without their terminators; a text ending in a
\* terminator yields no trailing empty line.
splitlines(s) ==
  IF s = <<>> THEN <<>>
  ELSE IF FirstNL(s) = 0 THEN <<s>>
  ELSE <<SubSeq(s, 1, FirstNL(s) - 1)>>
       \o splitlines(SubSeq(s, FirstNL(s) + 1, Len(s)))

RECURSIVE readlines(_)
\* file.readlines(): the lines with their terminators kept.
readlines(s) ==
  IF s = <<>> THEN <<>>
  ELSE IF FirstNL(s) = 0 THEN <<s>>
  ELSE <<SubSeq(s, 1, FirstNL(s))>>
       \o readlines(SubSeq(s, FirstNL(s) + 1, Len(s)))

\* [s.strip() for s in output_file.readlines()]
StripAll(ls) == [i \in 1..Len(ls) |-> strip(ls[i])]

\* str.startswith
StartsWith(s, prefix) ==
  Len(prefix) <= Len(s) /\ SubSeq(s, 1, Len(prefix)) = prefix

\* needle in haystack (substring test).
Contains(haystack, needle) ==
  \E p \in 0..(Len(haystack) - Len(needle)) :
    Slice(haystack, p, p + Len(needle)) = needle

RECURSIVE replace(_, _, _)
\* str.replace(old, new): every non-overlapping occurrence, left to right.
replace(s, old, new) ==
  IF Len(s) < Len(old) THEN s
  ELSE IF StartsWith(s, old)
         THEN new \o replace(SubSeq(s, Len(old) + 1, Len(s)), old, new)
         ELSE <<Head(s)>> \o replace(Tail(s), old, new)

----------------------------------------------------------------------------
(* difflib.SequenceMatcher without junk (Differ passes linejunk = None and *)
(* charjunk = None; the automatic junk heuristic needs 200 elements).      *)

IsMatch(a, b, i, j, k) == \A d \in 0..(k - 1) : At(a, i + d) = At(b, j + d)

\* The best of a non-empty set of candidate blocks <<i, j, k>>: the longest,
\* then the one starting earliest in a, then earliest in b.
BestBlock(cands) ==
  CHOOSE c \in cands :
    \A d \in cands : \/ c[3] > d[3]
                     \/ c[3] = d[3] /\ c[1] < d[1]
                     \/ c[3] = d[3] /\ c[1] = d[1] /\ c[2] <= d[2]

\* Every block a[i:i+k] = b[j:j+k], k > 0, inside a[alo:ahi], b[blo:bhi].
Blocks(a, b, alo, ahi, blo, bhi) ==
  { c \in (alo..(ahi - 1)) \X (blo..(bhi - 1)) \X (1..(ahi - alo)) :
      /\ c[1] + c[3] <= ahi
      /\ c[2] + c[3] <= bhi
      /\ IsMatch(a, b, c[1], c[2], c[3]) }

\* SequenceMatcher.find_longest_match: the longest matching block, the
\* earliest in a and then in b among the longest; <<alo, blo, 0>> when
\* nothing matches.
find_longest_match(a, b, alo, ahi, blo, bhi) ==
  IF \E i \in alo..(ahi - 1) : \E j \in blo..(bhi - 1) : At(a, i) = At(b, j)
    THEN BestBlock(Blocks(a, b, alo, ahi, blo, bhi))
    ELSE <<alo, blo, 0>>

RECURSIVE match_rec(_, _, _, _, _, _)
RECURSIVE match_around(_, _, _, _, _, _, _)

\* The queue loop of get_matching_blocks on one range, its result in sorted
\* order.
match_rec(a, b, alo, ahi, blo, bhi) ==
  match_around(a, b, alo, ahi, blo, bhi,
               find_longest_match(a, b, alo, ahi, blo, bhi))

\* The block x found in the range, with the blocks of the ranges to its
\* left and to its right.
match_around(a, b, alo, ahi, blo, bhi, x) ==
  IF x[3] = 0 THEN <<>>
  ELSE (IF alo < x[1] /\ blo < x[2]
          THEN match_rec(a, b, alo, x[1], blo, x[2])
          ELSE <<>>)
       \o <<x>>
       \o (IF x[1] + x[3] < ahi /\ x[2] + x[3] < bhi
             THEN match_rec(a, b, x[1] + x[3], ahi, x[2] + x[3], bhi)
             ELSE <<>>)

RECURSIVE collapse(_, _)
\* Adjacent blocks merged; cur is the block being grown.
collapse(blocks, cur) ==
  IF blocks = <<>>
    THEN IF cur[3] # 0 THEN <<cur>> ELSE <<>>
  ELSE IF cur[1] + cur[3] = Head(blocks)[1] /\ cur[2] + cur[3] = Head(blocks)[2]
    THEN collapse(Tail(blocks), <<cur[1], cur[2], cur[3] + Head(blocks)[3]>>)
  ELSE (IF cur[3] # 0 THEN <<cur>> ELSE <<>>)
       \o collapse(Tail(blocks), Head(blocks))

get_matching_blocks(a, b) ==
  collapse(match_rec(a, b, 0, Len(a), 0, Len(b)), <<0, 0, 0>>)
    \o << <<Len(a), Len(b), 0>> >>

\* The opcodes one matching block <<ai, bj, size>> contributes when the
\* previous block ended at (i, j).
BlockOps(blk, i, j) ==
  (IF i < blk[1] /\ j < blk[2] THEN << <<"replace", i, blk[1], j, blk[2]>> >>
   ELSE IF i < blk[1] THEN << <<"delete", i, blk[1], j, blk[2]>> >>
   ELSE IF j < blk[2] THEN << <<"insert", i, blk[1], j, blk[2]>> >>
   ELSE <<>>)
  \o (IF blk[3] # 0
        THEN << <<"equal", blk[1], blk[1] + blk[3], blk[2], blk[2] + blk[3]>> >>
        ELSE <<>>)

RECURSIVE opcodes_rec(_, _, _)
opcodes_rec(blocks, i, j) ==
  IF blocks = <<>> THEN <<>>
  ELSE BlockOps(Head(blocks), i, j)
       \o opcodes_rec(Tail(blocks), Head(blocks)[1] + Head(blocks)[3],
                      Head(blocks)[2] + Head(blocks)[3])

get_opcodes(a, b) == opcodes_rec(get_matching_blocks(a, b), 0, 0)

RECURSIVE SumSizes(_)
SumSizes(blocks) ==
  IF blocks = <<>> THEN 0 ELSE Head(blocks)[3] + SumSizes(Tail(blocks))

\* ratio() = 2.0 * matches / length, kept as the fraction <<num, den>>; 1.0
\* for two empty sequences.
ratio(a, b) ==
  IF Len(a) + Len(b) = 0 THEN <<1, 1>>
  ELSE <<2 * SumSizes(get_matching_blocks(a, b)), Len(a) + Len(b)>>

\* r > q for fractions with positive denominators.
FracGT(r, q) == r[1] * q[2] > q[1] * r[2]

----------------------------------------------------------------------------
(* difflib.Differ.compare: the diff is a list of strings, each starting    *)
(* with a two-character code: "  " common line, "- " line only in the      *)
(* first sequence, "+ " line only in the second, "? " intraline hint.      *)

\* Differ._dump: one entry, the tag, a space and the line, per line of x[lo:hi].
dump(tag, x, lo, hi) ==
  [n \in 1..(hi - lo) |-> <<tag, " ">> \o At(x, lo + n - 1)]

\* Differ._plain_replace: the shorter block is dumped first.
plain_replace(a, alo, ahi, b, blo, bhi) ==
  IF bhi - blo < ahi - alo
    THEN dump("+", b, blo, bhi) \o dump("-", a, alo, ahi)
    ELSE dump("-", a, alo, ahi) \o dump("+", b, blo, bhi)

\* _keep_original_ws: whitespace of the line shows through blank tags.
keep_original_ws(s, tag_s) ==
  [n \in 1..(IF Len(s) < Len(tag_s) THEN Len(s) ELSE Len(tag_s)) |->
     IF tag_s[n] = " " /\ s[n] \in Whitespace THEN s[n] ELSE tag_s[n]]

\* The intraline marks one opcode contributes to one side ("a" or "b").
OpTags(op, side) ==
  IF op[1] = "replace"
    THEN Repeat("^", IF side = "a" THEN op[3] - op[2] ELSE op[5] - op[4])
  ELSE IF op[1] = "delete"
    THEN (IF side = "a" THEN Repeat("-", op[3] - op[2]) ELSE <<>>)
  ELSE IF op[1] = "insert"
    THEN (IF side = "a" THEN <<>> ELSE Repeat("+", op[5] - op[4]))
  ELSE Repeat(" ", IF side = "a" THEN op[3] - op[2] ELSE op[5] - op[4])

RECURSIVE tags_rec(_, _)
\* atags (side "a") or btags (side "b") of _fancy_replace.
tags_rec(ops, side) ==
  IF ops = <<>> THEN <<>>
  ELSE OpTags(Head(ops), side) \o tags_rec(Tail(ops), side)

\* "? ", the tags and a newline, if the tags are not blank.
Hint(tags) ==
  IF tags # <<>> THEN << <<"?", " ">> \o tags \o <<NL>> >> ELSE <<>>

\* Differ._qformat: the '-', '?', '+', '?' entries of a synched pair; a hint
\* that is blank after rstrip is left out.
qformat(aline, bline, atags, btags) ==
  << <<"-", " ">> \o aline >>
    \o Hint(rstrip(keep_original_ws(aline, atags)))
    \o << <<"+", " ">> \o bline >>
    \o Hint(rstrip(keep_original_ws(bline, btags)))

\* c comes no later than d in the search loop of _fancy_replace (j outer,
\* i inner).
LoopOrder(c, d) == c[2] < d[2] \/ (c[2] = d[2] /\ c[1] <= d[1])

\* The best pair of a set of pairs under the scores: the highest score,
\* the first met on ties; <<>> for the empty set.
BestPair(close, score) ==
  IF close = {} THEN <<>>
  ELSE CHOOSE c \in close :
         \A d \in close :
           \/ FracGT(score[c], score[d])
           \/ ~FracGT(score[d], score[c]) /\ LoopOrder(c, d)

\* (eqi, eqj): the first identical pair met; <<>> if there is none.
EqPair(same) ==
  IF same = {} THEN <<>>
  ELSE CHOOSE c \in same : \A d \in same : LoopOrder(c, d)

\* The choice made after the loop, given the best close pair and the first
\* identical pair: <<i, j, identical>>, or <<>> for a straight replace.  The
\* close pair is used if its score reaches the cutoff 0.75.
Choose(best, eq, score) ==
  IF best # <<>> /\ ~FracGT(<<75, 100>>, score[best])
    THEN <<best[1], best[2], FALSE>>
  ELSE IF eq # <<>> THEN <<eq[1], eq[2], TRUE>>
  ELSE <<>>

\* The search of _fancy_replace under the table of scores of all pairs:
\* the close pairs are the non-identical ones scoring above 0.74.
SynchUnder(a, alo, ahi, b, blo, bhi, score) ==
  Choose(BestPair({ c \in (alo..(ahi - 1)) \X (blo..(bhi - 1)) :
                      /\ At(a, c[1]) # At(b, c[2])
                      /\ FracGT(score[c], <<74, 100>>) }, score),
         EqPair({ c \in (alo..(ahi - 1)) \X (blo..(bhi - 1)) :
                    At(a, c[1]) = At(b, c[2]) }),
         score)

\* The synch pair of _fancy_replace.
SynchPair(a, alo, ahi, b, blo, bhi) ==
  SynchUnder(a, alo, ahi, b, blo, bhi,
             [c \in (alo..(ahi - 1)) \X (blo..(bhi - 1)) |->
                ratio(At(a, c[1]), At(b, c[2]))])

\* The '-', '?', '+', '?' quad of a synch pair under its opcodes.
Quad(aelt, belt, ops) ==
  qformat(aelt, belt, tags_rec(ops, "a"), tags_rec(ops, "b"))

\* The entries _fancy_replace emits for the synch pair itself: the quad, or
\* the common line if the pair is identical.
SynchLines(aelt, belt, identical) ==
  IF identical THEN << <<" ", " ">> \o aelt >>
  ELSE Quad(aelt, belt, get_opcodes(aelt, belt))

RECURSIVE fancy_replace(_, _, _, _, _, _)
RECURSIVE fancy_around(_, _, _, _, _, _, _)

\* Differ._fancy_replace, with the dispatch of Differ._fancy_helper (an
\* empty range on either side) at its head, as every recursive call goes
\* through _fancy_helper.
fancy_replace(a, alo, ahi, b, blo, bhi) ==
  IF alo >= ahi
    THEN (IF blo < bhi THEN dump("+", b, blo, bhi) ELSE <<>>)
  ELSE IF blo >= bhi
    THEN dump("-", a, alo, ahi)
  ELSE fancy_around(a, alo, ahi, b, blo, bhi,
                    SynchPair(a, alo, ahi, b, blo, bhi))

\* The output of _fancy_replace once the synch pair is known.
fancy_around(a, alo, ahi, b, blo, bhi, synch) ==
  IF synch = <<>>
    THEN plain_replace(a, alo, ahi, b, blo, bhi)
    ELSE fancy_replace(a, alo, synch[1], b, blo, synch[2])
         \o SynchLines(At(a, synch[1]), At(b, synch[2]), synch[3])
         \o fancy_replace(a, synch[1] + 1, ahi, b, synch[2] + 1, bhi)

\* The entries Differ.compare emits for one opcode.
OpLines(op, a, b) ==
  IF op[1] = "replace" THEN fancy_replace(a, op[2], op[3], b, op[4], op[5])
  ELSE IF op[1] = "delete" THEN dump("-", a, op[2], op[3])
  ELSE IF op[1] = "insert" THEN dump("+", b, op[4], op[5])
  ELSE dump(" ", a, op[2], op[3])

RECURSIVE compare_rec(_, _, _)
compare_rec(ops, a, b) ==
  IF ops = <<>> THEN <<>>
  ELSE OpLines(Head(ops), a, b) \o compare_rec(Tail(ops), a, b)

\* list(difflib.Differ().compare(a, b))
compare(a, b) == compare_rec(get_opcodes(a, b), a, b)

----------------------------------------------------------------------------
(* String literals of the program and of its environment.                  *)

\* game_dir / "solution.py"
SolutionName ==
  <<"s", "o", "l", "u", "t", "i", "o", "n", ".", "p", "y">>

\* the token replaced in an input fixture name
InputToken ==
  <<"i", "n", "p", "u", "t", "_">>

\* the token that replaces it
OutputToken ==
  <<"o", "u", "t", "p", "u", "t", "_">>

\* the extension of the glob pattern "input_*.txt"
TxtExt ==
  <<".", "t", "x", "t">>

\* the path separator of pathlib
Sep ==
  <<"/">>

\* the current working directory, for Path.absolute()
Cwd ==
  <<"/", "p", "l", "a", "y">>

\* sys.argv[0]
ProgName ==
  <<"r", "u", "n", "n", "e", "r", ".", "p", "y">>

\* print("Missing the game to start")
MsgUsage ==
  <<"M", "i", "s", "s", "i", "n", "g", " ", "t", "h", "e", " ", "g", "a",
  "m", "e", " ", "t", "o", " ", "s", "t", "a", "r", "t">>

\* print(f"Game [{game_to_run}] ...")
MsgGameOpen ==
  <<"G", "a", "m", "e", " ", "[">>

\* the malformed identifier message
MsgBadGame ==
  <<"]", " ", "s", "h", "o", "u", "l", "d", " ", "b", "e", " ", "4", "-",
  "d", "i", "g", "i", "t", "s", " ", "s", "t", "r", "i", "n", "g">>

\* the unknown identifier message
MsgNotFound ==
  <<"]", " ", "c", "a", "n", "n", "o", "t", " ", "b", "e", " ", "f", "o",
  "u", "n", "d">>

\* print(f"Running '{input_test}': ", end="")
MsgRunning ==
  <<"R", "u", "n", "n", "i", "n", "g", " ", "'">>

\* end of the same message
MsgRunningEnd ==
  <<"'", ":", " ">>

\* print("OK")
MsgOK ==
  <<"O", "K">>

\* print("FAIL")
MsgFAIL ==
  <<"F", "A", "I", "L">>

\* print("Bravo")
MsgBravo ==
  <<"B", "r", "a", "v", "o">>

\* the top-level error line
MsgError ==
  <<"Y", "o", "u", "r", " ", "s", "o", "l", "u", "t", "i", "o", "n", " ",
  "d", "o", "e", "s", " ", "n", "o", "t", " ", "w", "o", "r", "k", ".",
  " ", "E", "r", "r", "o", "r", ":", " ">>

\* f"Cannot find the test output '{self.test_output}' "
MsgMissingA ==
  <<"C", "a", "n", "n", "o", "t", " ", "f", "i", "n", "d", " ", "t", "h",
  "e", " ", "t", "e", "s", "t", " ", "o", "u", "t", "p", "u", "t", " ",
  "'">>

\* end of the f-string
MsgMissingB ==
  <<"'", " ">>

\* the second literal of __str__, which is not an f-string
MsgMissingC ==
  <<"a", "s", "s", "o", "c", "i", "a", "t", "e", "d", " ", "t", "o", " ",
  "t", "h", "e", " ", "t", "e", "s", "t", " ", "i", "n", "p", "u", "t",
  " ", "'", "{", "s", "e", "l", "f", ".", "t", "e", "s", "t", "_", "i",
  "n", "p", "u", "t", "}", "'">>

\* NotExpectedOutputError.__str__
MsgDiff ==
  <<"D", "i", "f", "f", " ", "b", "e", "t", "w", "e", "e", "n", " ", "y",
  "o", "u", "r", " ", "o", "u", "t", "p", "u", "t", " ", "a", "n", "d",
  " ", "t", "h", "e", " ", "e", "x", "p", "e", "c", "t", "e", "d", " ",
  "o", "u", "t", "p", "u", "t", ":", "\n">>

\* str(subprocess.CalledProcessError)
MsgCalledA ==
  <<"C", "o", "m", "m", "a", "n", "d", " ", "'", "[", "'", "p", "y", "t",
  "h", "o", "n", "3", "'", ",", " ", "P", "o", "s", "i", "x", "P", "a",
  "t", "h", "(", "'">>

\* end of the same message
MsgCalledB ==
  <<"'", ")", "]", "'", " ", "r", "e", "t", "u", "r", "n", "e", "d", " ",
  "n", "o", "n", "-", "z", "e", "r", "o", " ", "e", "x", "i", "t", " ",
  "s", "t", "a", "t", "u", "s", " ", "1", ".">>

\* str(FileNotFoundError) when python3 cannot be launched
MsgNoPython ==
  <<"[", "E", "r", "r", "n", "o", " ", "2", "]", " ", "N", "o", " ", "s",
  "u", "c", "h", " ", "f", "i", "l", "e", " ", "o", "r", " ", "d", "i",
  "r", "e", "c", "t", "o", "r", "y", ":", " ", "'", "p", "y", "t", "h",
  "o", "n", "3", "'">>

\* an exercise directory of the working directory
GameDemo ==
  <<"0", "0", "0", "1", "-", "d", "e", "m", "o">>

\* a second, empty directory with the same number
GameOld ==
  <<"0", "0", "0", "1", "-", "o", "l", "d">>

\* a regular file of the working directory
NotesFile ==
  <<"0", "0", "0", "2", ".", "t", "x", "t">>

----------------------------------------------------------------------------
(* The environment: command line, working directory, exercise directory,   *)
(* fixture contents and the candidate program.                             *)

Digits == {"0", "1", "2", "3", "4", "5", "6", "7", "8", "9"}

\* The entries of the working directory (Path(".").iterdir()).  GameDemo is
\* the directory whose contents vary; GameOld is empty; NotesFile is a file.
RootEntries == {GameDemo, GameOld, NotesFile}

\* Fixture identifiers (the part matched by * in "input_*.txt"); the second
\* one itself contains the input token.
IdPool == << <<"1">>, InputToken \o <<"1">>, <<"2">>, <<"3">>, <<"4">> >>
Ids == { IdPool[i] : i \in 1..(IF MaxFixtures < Len(IdPool) THEN MaxFixtures ELSE Len(IdPool)) }

InputName(id) == InputToken \o id \o TxtExt

\* The output fixture name of the naming convention: same identifier and
\* extension, the leading token swapped.
OutputName(id) == OutputToken \o id \o TxtExt

\* input_test.name.replace("input_", "output_")
output_test_filename(name) == replace(name, InputToken, OutputToken)

\* Every file name the exercise directory may hold.
FileNames ==
  {SolutionName}
    \cup { InputName(id) : id \in Ids }
    \cup { OutputName(id) : id \in Ids }
    \cup { output_test_filename(InputName(id)) : id \in Ids }

\* All sequences over S of length at most n.
SeqsUpTo(S, n) == UNION { [1..k -> S] : k \in 0..n }

\* The text whose lines are ls, each ended by a line terminator.
Text(ls) == Concat([i \in 1..Len(ls) |-> ls[i] \o <<NL>>])

\* sys.argv choices: no argument, "abc", "0001", "0002", "9999".
ArgvChoices ==
  { <<ProgName>>,
    <<ProgName, <<"a", "b", "c">> >>,
    <<ProgName, <<"0", "0", "0", "1">> >>,
    <<ProgName, <<"0", "0", "0", "2">> >>,
    <<ProgName, <<"9", "9", "9", "9">> >> }

\* What the candidate program does on one input fixture: its exit status
\* and the bytes it writes to standard output.
RunBehaviours ==
  { [status |-> 1, out |-> <<>>],
    [status |-> 0, out |-> Text(<< <<"a">> >>)] }

\* Contents of an expected-output fixture.
RunExpected == { Text(<< <<"a", " ">> >>), Text(<< <<"b">> >>) }

\* Richer contents, for the specification that explores the comparison.
OutLineSet == { <<"a">>, <<"a", "b">>, <<"a", "b", " ">> }
ExpLineSet == { <<"a">>, <<"a", "b", " ">> }
DiffBehaviours ==
  { [status |-> 0, out |-> Text(ls)] : ls \in SeqsUpTo(OutLineSet, MaxLines) }
DiffExpected == { Text(ls) : ls \in SeqsUpTo(ExpLineSet, MaxLines) }

----------------------------------------------------------------------------
(* Paths and the file system.                                              *)

\* pathlib: dir / name
PathJoin(dir, name) == dir \o Sep \o name

RECURSIVE BaseName(_)
\* Path.name: the last component.
BaseName(path) ==
  IF \E p \in 1..Len(path) : path[p] = Sep[1]
    THEN BaseName(SubSeq(path, FirstSep(path) + 1, Len(path)))
    ELSE path

\* Path.absolute()
Absolute(path) == Cwd \o Sep \o path

\* re.match(r"^[0-9]{4}", game_to_run) is not None
MatchesGame(game_to_run) ==
  Len(game_to_run) >= 4 /\ \A p \in 1..4 : game_to_run[p] \in Digits

\* fnmatch of a file name against "input_*.txt"
MatchesInput(name) ==
  /\ Len(name) >= Len(InputToken) + Len(TxtExt)
  /\ StartsWith(name, InputToken)
  /\ SubSeq(name, Len(name) - Len(TxtExt) + 1, Len(name)) = TxtExt

----------------------------------------------------------------------------
(* State.                                                                  *)

VARIABLES
  argv,             \* sys.argv
  files,            \* the file names present in the directory GameDemo
  expected,         \* contents of its expected-output fixtures, by name
  candidate,        \* behaviour of its solution.py on each input fixture, by name
  python3,          \* whether the interpreter "python3" can be launched
  pc,               \* position of the program
  game_dir,         \* selected_game_dir / game_dir of run()
  todo,             \* results of glob() not yet yielded
  globbed,          \* results of glob() yielded so far, in order
  test_suite,       \* the dict of run(), as its sequence of items
  idx,              \* position of the second loop in test_suite
  child,            \* live child processes, by input fixture
  output,           \* captured standard-output lines of the last child
  expected_output,  \* stripped lines of the expected-output fixture
  diffs,            \* the diff of the last comparison
  stdout,           \* everything the program has printed
  exit_code,        \* exit status of the program, -1 while it runs
  exc,              \* the exception raised by run(), if any
  launched,         \* input fixtures for which a child was started, in order
  opened,           \* fixture files opened
  probed,           \* paths whose existence was tested
  runNo,            \* which start of the program this is
  prev              \* what the previous start did

env == <<argv, files, expected, candidate, python3>>
prog == <<pc, game_dir, todo, globbed, test_suite, idx, child, output,
          expected_output, diffs, stdout, exit_code, exc, launched, opened,
          probed>>
vars == <<env, prog, runNo, prev>>

----------------------------------------------------------------------------
(* Exceptions.                                                             *)

NoExc ==
  [type |-> "none", test_input |-> <<>>, test_output |-> <<>>, diffs |-> <<>>]

\* SolutionNotFoundError(), and the exceptions of subprocess.run
PlainError(type) == [NoExc EXCEPT !.type = type]

\* MissingTestOutputError.__init__
MissingTestOutputError(test_input, test_output) ==
  [type |-> "MissingTestOutputError", test_input |-> test_input,
   test_output |-> test_output, diffs |-> <<>>]

\* NotExpectedOutputError.__init__
NotExpectedOutputError(ds) ==
  [type |-> "NotExpectedOutputError", test_input |-> <<>>,
   test_output |-> <<>>, diffs |-> ds]

RECURSIVE JoinNL(_)
\* "\n".join(parts)
JoinNL(parts) ==
  IF parts = <<>> THEN <<>>
  ELSE IF Len(parts) = 1 THEN parts[1]
  ELSE parts[1] \o <<NL>> \o JoinNL(Tail(parts))

\* MissingTestOutputError.__str__: only the first literal is an f-string.
MissingStr(e) ==
  MsgMissingA \o e.test_output \o MsgMissingB \o MsgMissingC

\* NotExpectedOutputError.__str__
NotExpectedStr(e) == MsgDiff \o JoinNL(e.diffs)

\* str(err) of the handler in main()
Str(e) ==
  CASE e.type = "MissingTestOutputError" -> MissingStr(e)
    [] e.type = "NotExpectedOutputError" -> NotExpectedStr(e)
    [] e.type = "CalledProcessError" ->
         MsgCalledA \o Absolute(PathJoin(game_dir, SolutionName)) \o MsgCalledB
    [] e.type = "FileNotFoundError" -> MsgNoPython
    [] OTHER -> <<>>

----------------------------------------------------------------------------
(* File system queries.                                                    *)

\* The files of a working-directory entry.
DirFiles(dir) == IF dir = GameDemo THEN files ELSE {}

\* Path.exists()
Exists(path) ==
  \/ path \in RootEntries
  \/ \E d \in RootEntries : \E n \in DirFiles(d) : path = PathJoin(d, n)

\* game_dir.glob("input_*.txt"), as a set; the order is chosen on iteration.
Glob(dir) == { PathJoin(dir, n) : n \in { m \in DirFiles(dir) : MatchesInput(m) } }

\* SolutionExists where the directory is tested, not solution.py.
DirExists(dir) == Exists(dir)

\* solution.exists()
SolutionExists(dir) == Exists(PathJoin(dir, SolutionName))

\* The entries iterdir() can yield first among those matching the argument.
MatchingEntries(game_to_run) ==
  { e \in RootEntries : StartsWith(e, game_to_run) }

\* The expected-output path computed for an input fixture.
OutputTest(dir, input_test) ==
  PathJoin(dir, output_test_filename(BaseName(input_test)))

\* ExpectedLines where the fixture of the first pair is read each time.
ExpectedLinesOfFirst(output_test) ==
  StripAll(readlines(expected[BaseName(test_suite[1][2])]))

\* The stripped lines of an expected-output fixture.
ExpectedLines(output_test) ==
  StripAll(readlines(expected[BaseName(output_test)]))

\* Differs where any diff entry at all counts as a difference.
DiffersAnyEntry(ds, exp) == Len(ds) # 0

\* Differs where the diff is measured against the actual output.
DiffersFromActual(ds, exp) == Len(ds) # Len(output)

\* len(diffs) != len(expected_output)
Differs(ds, exp) == Len(ds) # Len(exp)

\* print(text)
Printed(text) == stdout \o text \o <<NL>>

----------------------------------------------------------------------------
(* Initial states.                                                         *)

NoPrev == [game_dir |-> <<>>, globbed |-> <<>>, stdout |-> <<>>, exit_code |-> -1]

\* The program at its start.
ProgramInit ==
  /\ pc = "main"
  /\ game_dir = <<>>
  /\ todo = {}
  /\ globbed = <<>>
  /\ test_suite = <<>>
  /\ idx = 1
  /\ child = {}
  /\ output = <<>>
  /\ expected_output = <<>>
  /\ diffs = <<>>
  /\ stdout = <<>>
  /\ exit_code = -1
  /\ exc = NoExc
  /\ launched = <<>>
  /\ opened = {}
  /\ probed = {}

InputFiles(fs) == { n \in fs : MatchesInput(n) }
OutputFiles(fs) == { n \in fs : StartsWith(n, OutputToken) }

\* Any command line, any content of the exercise directory.
Init ==
  /\ argv \in ArgvChoices
  /\ files \in SUBSET FileNames
  /\ expected \in [OutputFiles(files) -> RunExpected]
  /\ candidate \in [InputFiles(files) -> RunBehaviours]
  /\ python3 \in BOOLEAN
  /\ ProgramInit
  /\ runNo = 1
  /\ prev = NoPrev

\* The two fixtures of the comparison's specification.
DiffId == IdPool[1]
OtherId == IdPool[3]

\* A complete exercise directory with two fixture pairs: the contents of the
\* first are explored, the second always passes.
InitDiff ==
  /\ argv = <<ProgName, <<"0", "0", "0", "1">> >>
  /\ files = {SolutionName, InputName(DiffId), OutputName(DiffId),
              InputName(OtherId), OutputName(OtherId)}
  /\ \E e \in DiffExpected :
       expected = (OutputName(DiffId) :> e) @@ (OutputName(OtherId) :> Text(<< <<"b">> >>))
  /\ \E c \in DiffBehaviours :
       candidate = (InputName(DiffId) :> c)
                     @@ (InputName(OtherId) :> [status |-> 0, out |-> Text(<< <<"b">> >>)])
  /\ python3 = TRUE
  /\ ProgramInit
  /\ runNo = 1
  /\ prev = NoPrev

----------------------------------------------------------------------------
(* main()                                                                  *)

\* len(sys.argv) != 2
Usage ==
  /\ pc = "main"
  /\ Len(argv) # 2
  /\ stdout' = Printed(MsgUsage)
  /\ exit_code' = 1
  /\ pc' = "exited"
  /\ UNCHANGED <<env, game_dir, todo, globbed, test_suite, idx, child, output,
                 expected_output, diffs, exc, launched, opened, probed, runNo, prev>>

\* the argument does not start with four digits
BadGame ==
  /\ pc = "main"
  /\ Len(argv) = 2
  /\ ~MatchesGame(argv[2])
  /\ stdout' = Printed(MsgGameOpen \o argv[2] \o MsgBadGame)
  /\ exit_code' = 1
  /\ pc' = "exited"
  /\ UNCHANGED <<env, game_dir, todo, globbed, test_suite, idx, child, output,
                 expected_output, diffs, exc, launched, opened, probed, runNo, prev>>

\* no entry of the working directory starts with the argument
NotFound ==
  /\ pc = "main"
  /\ Len(argv) = 2
  /\ MatchesGame(argv[2])
  /\ MatchingEntries(argv[2]) = {}
  /\ stdout' = Printed(MsgGameOpen \o argv[2] \o MsgNotFound)
  /\ exit_code' = 1
  /\ pc' = "exited"
  /\ UNCHANGED <<env, game_dir, todo, globbed, test_suite, idx, child, output,
                 expected_output, diffs, exc, launched, opened, probed, runNo, prev>>

\* the first matching entry, in whatever order iterdir() lists them
SelectGame ==
  /\ pc = "main"
  /\ Len(argv) = 2
  /\ MatchesGame(argv[2])
  /\ \E e \in MatchingEntries(argv[2]) : game_dir' = e
  /\ pc' = "run"
  /\ UNCHANGED <<env, todo, globbed, test_suite, idx, child, output,
                 expected_output, diffs, stdout, exit_code, exc, launched, opened,
                 probed, runNo, prev>>

\* Handle where the error line is printed and sys.exit(1) is forgotten.
HandleNoExit ==
  /\ pc = "raised"
  /\ stdout' = Printed(MsgError \o Str(exc))
  /\ exit_code' = 0
  /\ pc' = "exited"
  /\ UNCHANGED <<env, game_dir, todo, globbed, test_suite, idx, child, output,
                 expected_output, diffs, exc, launched, opened, probed, runNo, prev>>

\* except Exception as err: print the error line, sys.exit(1)
Handle ==
  /\ pc = "raised"
  /\ stdout' = Printed(MsgError \o Str(exc))
  /\ exit_code' = 1
  /\ pc' = "exited"
  /\ UNCHANGED <<env, game_dir, todo, globbed, test_suite, idx, child, output,
                 expected_output, diffs, exc, launched, opened, probed, runNo, prev>>

\* else: print("Bravo"); the program ends with status 0
Finish ==
  /\ pc = "loop"
  /\ idx > Len(test_suite)
  /\ stdout' = Printed(MsgBravo)
  /\ exit_code' = 0
  /\ pc' = "exited"
  /\ UNCHANGED <<env, game_dir, todo, globbed, test_suite, idx, child, output,
                 expected_output, diffs, exc, launched, opened, probed, runNo, prev>>

----------------------------------------------------------------------------
(* run(game_dir)                                                           *)

\* solution.py is absent: raise SolutionNotFoundError()
SolutionMissing ==
  /\ pc = "run"
  /\ ~SolutionExists(game_dir)
  /\ probed' = probed \cup {PathJoin(game_dir, SolutionName)}
  /\ exc' = PlainError("SolutionNotFoundError")
  /\ pc' = "raised"
  /\ UNCHANGED <<env, game_dir, todo, globbed, test_suite, idx, child, output,
                 expected_output, diffs, stdout, exit_code, launched, opened,
                 runNo, prev>>

\* solution.py is there: test_suite = {} and the glob is started
StartDiscovery ==
  /\ pc = "run"
  /\ SolutionExists(game_dir)
  /\ probed' = probed \cup {PathJoin(game_dir, SolutionName)}
  /\ test_suite' = <<>>
  /\ todo' = Glob(game_dir)
  /\ pc' = IF todo' = {} THEN "loop" ELSE "glob"
  /\ UNCHANGED <<env, game_dir, globbed, idx, child, output, expected_output,
                 diffs, stdout, exit_code, exc, launched, opened, runNo, prev>>

\* one iteration of the first loop, the output fixture exists
PairFixture ==
  /\ pc = "glob"
  /\ \E input_test \in todo :
       LET output_test == OutputTest(game_dir, input_test)
       IN /\ Exists(output_test)
          /\ probed' = probed \cup {output_test}
          /\ globbed' = Append(globbed, input_test)
          /\ test_suite' = Append(test_suite, <<input_test, output_test>>)
          /\ todo' = todo \ {input_test}
  /\ pc' = IF todo' = {} THEN "loop" ELSE "glob"
  /\ UNCHANGED <<env, game_dir, idx, child, output, expected_output, diffs,
                 stdout, exit_code, exc, launched, opened, runNo, prev>>

\* one iteration of the first loop, the output fixture is missing
MissingOutput ==
  /\ pc = "glob"
  /\ \E input_test \in todo :
       LET output_test == OutputTest(game_dir, input_test)
       IN /\ ~Exists(output_test)
          /\ probed' = probed \cup {output_test}
          /\ globbed' = Append(globbed, input_test)
          /\ exc' = MissingTestOutputError(input_test, output_test)
  /\ pc' = "raised"
  /\ UNCHANGED <<env, game_dir, todo, test_suite, idx, child, output,
                 expected_output, diffs, stdout, exit_code, launched, opened,
                 runNo, prev>>

\* start of an iteration of the second loop: the input fixture is opened
\* and subprocess.run starts the child
Launch ==
  /\ pc = "loop"
  /\ idx <= Len(test_suite)
  /\ python3
  /\ LET input_test == test_suite[idx][1]
     IN /\ stdout' = stdout \o MsgRunning \o input_test \o MsgRunningEnd
        /\ opened' = opened \cup {input_test}
        /\ child' = child \cup {input_test}
        /\ launched' = Append(launched, input_test)
  /\ output' = <<>>
  /\ expected_output' = <<>>
  /\ pc' = "child"
  /\ UNCHANGED <<env, game_dir, todo, globbed, test_suite, idx, diffs, exit_code,
                 exc, probed, runNo, prev>>

\* the same, but python3 cannot be launched: subprocess.run raises
LaunchFail ==
  /\ pc = "loop"
  /\ idx <= Len(test_suite)
  /\ ~python3
  /\ LET input_test == test_suite[idx][1]
     IN /\ stdout' = stdout \o MsgRunning \o input_test \o MsgRunningEnd
        /\ opened' = opened \cup {input_test}
  /\ output' = <<>>
  /\ expected_output' = <<>>
  /\ exc' = PlainError("FileNotFoundError")
  /\ pc' = "raised"
  /\ UNCHANGED <<env, game_dir, todo, globbed, test_suite, idx, child, diffs,
                 exit_code, launched, probed, runNo, prev>>

\* the child exits with a nonzero status: check=True raises
ChildFail ==
  /\ pc = "child"
  /\ LET input_test == test_suite[idx][1]
     IN /\ candidate[BaseName(input_test)].status # 0
        /\ child' = child \ {input_test}
  /\ exc' = PlainError("CalledProcessError")
  /\ pc' = "raised"
  /\ UNCHANGED <<env, game_dir, todo, globbed, test_suite, idx, output,
                 expected_output, diffs, stdout, exit_code, launched, opened,
                 probed, runNo, prev>>

\* ChildOK where the output is taken without waiting for the child.
ChildOKNoWait ==
  /\ pc = "child"
  /\ candidate[BaseName(test_suite[idx][1])].status = 0
  /\ output' = splitlines(candidate[BaseName(test_suite[idx][1])].out)
  /\ pc' = "captured"
  /\ UNCHANGED <<env, game_dir, todo, globbed, test_suite, idx, child,
                 expected_output, diffs, stdout, exit_code, exc, launched, opened,
                 probed, runNo, prev>>

\* the child exits with status 0: its standard output is decoded and split
ChildOK ==
  /\ pc = "child"
  /\ LET input_test == test_suite[idx][1]
     IN /\ candidate[BaseName(input_test)].status = 0
        /\ child' = child \ {input_test}
        /\ output' = splitlines(candidate[BaseName(input_test)].out)
  /\ pc' = "captured"
  /\ UNCHANGED <<env, game_dir, todo, globbed, test_suite, idx, expected_output,
                 diffs, stdout, exit_code, exc, launched, opened, probed, runNo,
                 prev>>

\* the comparison finds as many diff lines as expected lines: print("OK")
Pass ==
  /\ pc = "captured"
  /\ opened' = opened \cup {test_suite[idx][2]}
  /\ expected_output' = ExpectedLines(test_suite[idx][2])
  /\ diffs' = compare(output, expected_output')
  /\ ~Differs(diffs', expected_output')
  /\ stdout' = Printed(MsgOK)
  /\ idx' = idx + 1
  /\ pc' = "loop"
  /\ UNCHANGED <<env, game_dir, todo, globbed, test_suite, child, output,
                 exit_code, exc, launched, probed, runNo, prev>>

\* Mismatch where the failure is recorded and the loop goes on.
MismatchContinues ==
  /\ pc = "captured"
  /\ opened' = opened \cup {test_suite[idx][2]}
  /\ expected_output' = ExpectedLines(test_suite[idx][2])
  /\ diffs' = compare(output, expected_output')
  /\ Differs(diffs', expected_output')
  /\ stdout' = Printed(MsgFAIL)
  /\ exc' = NotExpectedOutputError(diffs')
  /\ idx' = idx + 1
  /\ pc' = "loop"
  /\ UNCHANGED <<env, game_dir, todo, globbed, test_suite, child, output,
                 exit_code, launched, probed, runNo, prev>>

\* the comparison finds another number of diff lines: print("FAIL") and
\* raise NotExpectedOutputError(diffs)
Mismatch ==
  /\ pc = "captured"
  /\ opened' = opened \cup {test_suite[idx][2]}
  /\ expected_output' = ExpectedLines(test_suite[idx][2])
  /\ diffs' = compare(output, expected_output')
  /\ Differs(diffs', expected_output')
  /\ stdout' = Printed(MsgFAIL)
  /\ exc' = NotExpectedOutputError(diffs')
  /\ pc' = "raised"
  /\ UNCHANGED <<env, game_dir, todo, globbed, test_suite, idx, child, output,
                 exit_code, launched, probed, runNo, prev>>

----------------------------------------------------------------------------
(* The program is started again on the unchanged directory.                *)

Rerun ==
  /\ pc = "exited"
  /\ runNo < MaxRuns
  /\ runNo' = runNo + 1
  /\ prev' = [game_dir |-> game_dir, globbed |-> globbed, stdout |-> stdout,
              exit_code |-> exit_code]
  /\ pc' = "main"
  /\ game_dir' = <<>>
  /\ todo' = {}
  /\ globbed' = <<>>
  /\ test_suite' = <<>>
  /\ idx' = 1
  /\ child' = {}
  /\ output' = <<>>
  /\ expected_output' = <<>>
  /\ diffs' = <<>>
  /\ stdout' = <<>>
  /\ exit_code' = -1
  /\ exc' = NoExc
  /\ launched' = <<>>
  /\ opened' = {}
  /\ probed' = {}
  /\ UNCHANGED env

----------------------------------------------------------------------------
(* Specifications.                                                         *)

Next ==
  \/ Usage
  \/ BadGame
  \/ NotFound
  \/ SelectGame
  \/ SolutionMissing
  \/ StartDiscovery
  \/ PairFixture
  \/ MissingOutput
  \/ Launch
  \/ LaunchFail
  \/ ChildFail
  \/ ChildOK
  \/ Pass
  \/ Mismatch
  \/ Handle
  \/ Finish
  \/ Rerun

\* The whole program, started up to MaxRuns times on any directory.
Spec == Init /\ [][Next]_vars

\* One start on a complete directory.  Of the actions left out only the
\* restart is ever enabled from InitDiff.
NextDiff ==
  \/ SelectGame
  \/ SolutionMissing
  \/ StartDiscovery
  \/ PairFixture
  \/ Launch
  \/ ChildOK
  \/ Pass
  \/ Mismatch
  \/ Handle
  \/ Finish

SpecDiff == InitDiff /\ [][NextDiff]_vars

----------------------------------------------------------------------------
(* Vocabulary of the properties.                                           *)

\* The program printed the Running line of path, ending with outcome.
Reported(out, path, outcome) ==
  Contains(out, MsgRunning \o path \o MsgRunningEnd \o outcome \o <<NL>>)

\* The text that follows the first "Your solution does not work. Error: ".
AfterError(out) ==
  IF Contains(out, MsgError)
    THEN LET p == CHOOSE q \in 0..(Len(out) - Len(MsgError)) :
                    /\ Slice(out, q, q + Len(MsgError)) = MsgError
                    /\ \A r \in 0..(q - 1) : Slice(out, r, r + Len(MsgError)) # MsgError
         IN Slice(out, p + Len(MsgError), Len(out))
    ELSE <<>>

RECURSIVE IsSubsequence(_, _)
\* s can be obtained from t by deleting elements.
IsSubsequence(s, t) ==
  IF s = <<>> THEN TRUE
  ELSE IF t = <<>> THEN FALSE
  ELSE IF Head(s) = Head(t) THEN IsSubsequence(Tail(s), Tail(t))
  ELSE IsSubsequence(s, Tail(t))

\* The diff has an entry for a line only in the actual output.
HasDeleted(ds) == \E n \in 1..Len(ds) : ds[n][1] = "-"

\* A comparison has just ended with OK / with FAIL; output, expected_output
\* and diffs are then those of that comparison.
JustPassed == pc = "loop" /\ idx > 1
JustFailed == pc = "raised" /\ exc.type = "NotExpectedOutputError"

\* The fixture whose comparison has just ended.
LastInput == IF JustPassed THEN test_suite[idx - 1][1] ELSE test_suite[idx][1]
LastOutput == IF JustPassed THEN test_suite[idx - 1][2] ELSE test_suite[idx][2]

\* The lines the candidate wrote for an input fixture, and the lines of the
\* expected-output fixture, read from the environment.
ActualLinesOf(input_test) == splitlines(candidate[BaseName(input_test)].out)
FileLinesOf(output_test) == readlines(expected[BaseName(output_test)])

\* The ways a fixture can fail in the second loop of run().
FixtureFailures ==
  {"NotExpectedOutputError", "CalledProcessError", "FileNotFoundError"}

----------------------------------------------------------------------------
(* C1.  A candidate that exits with status 0 and writes exactly one line   *)
(* fewer than the expected-output fixture holds gets FAIL: the run raises  *)
(* NotExpectedOutputError, and the number of diff entries it carries is    *)
(* not the number of expected lines.                                       *)
C1_OneFewerLineFails ==
  ((JustPassed \/ JustFailed)
     /\ Len(ActualLinesOf(LastInput)) + 1 = Len(FileLinesOf(LastOutput)))
  => /\ JustFailed
     /\ Reported(stdout, LastInput, MsgFAIL)
     /\ Len(exc.diffs) # Len(FileLinesOf(LastOutput))

(* C2.  When the captured output lines equal the stripped lines of the     *)
(* expected-output fixture, the step that ends the comparison prints OK,   *)
(* raises nothing and moves on to the next fixture pair.                   *)
C2_EqualOutputPasses ==
  [][(pc = "captured"
        /\ output = StripAll(FileLinesOf(test_suite[idx][2])))
       => /\ stdout' = stdout \o MsgOK \o <<NL>>
          /\ Reported(stdout', test_suite[idx][1], MsgOK)
          /\ exc' = NoExc
          /\ idx' = idx + 1
          /\ pc' = "loop"]_vars

\* The child of the second fixture runs after a first fixture whose output
\* equals its non-empty expected lines, which stripping has changed.
C2_Witness ==
  /\ pc = "child"
  /\ idx = 2
  /\ ActualLinesOf(test_suite[1][1]) # <<>>
  /\ ActualLinesOf(test_suite[1][1]) = StripAll(FileLinesOf(test_suite[1][2]))
  /\ \E n \in 1..Len(FileLinesOf(test_suite[1][2])) :
       FileLinesOf(test_suite[1][2])[n] # strip(FileLinesOf(test_suite[1][2])[n]) \o <<NL>>
  /\ Reported(stdout, test_suite[1][1], MsgOK)

(* C3.  Fail-fast: once a fixture has failed (mismatch, nonzero exit or    *)
(* failure to launch), the rest of that run starts no child, stays at the  *)
(* same fixture, remains failed, and ends with exit status 1.              *)
C3_FailFast ==
  [][(exc.type \in FixtureFailures /\ runNo' = runNo)
       => /\ exc' = exc
          /\ launched' = launched
          /\ child' = {}
          /\ idx' = idx
          /\ pc' = "exited"
          /\ exit_code' = 1]_vars

\* A run has ended on a mismatch while a later fixture pair was never run.
C3_Witness ==
  /\ pc = "exited"
  /\ exc.type = "NotExpectedOutputError"
  /\ idx < Len(test_suite)
  /\ Len(launched) = idx

\* The identifiers whose input fixture is there and whose counterpart is not.
Unpaired == { id \in Ids : InputName(id) \in files /\ OutputName(id) \notin files }

(* C4.  With solution.py present and some input fixture input_X.txt whose  *)
(* output_X.txt is absent, the run raises MissingTestOutputError carrying  *)
(* such an input path and its absent output path, and never starts the     *)
(* candidate.                                                              *)
C4_MissingOutputAborts ==
  (pc = "exited" /\ game_dir = GameDemo /\ SolutionName \in files /\ Unpaired # {})
  => /\ exc.type = "MissingTestOutputError"
     /\ \E id \in Unpaired :
          /\ exc.test_input = PathJoin(GameDemo, InputName(id))
          /\ exc.test_output = PathJoin(GameDemo, OutputName(id))
     /\ launched = <<>>

(* C5.  Without solution.py the run raises SolutionNotFoundError before     *)
(* any discovery: nothing is globbed, no fixture is opened, no output       *)
(* fixture is tested for existence, no child is started.                    *)
C5_NoSolutionNoDiscovery ==
  (pc \notin {"main", "run"} /\ game_dir # <<>> /\ SolutionName \notin DirFiles(game_dir))
  => /\ pc \in {"raised", "exited"}
     /\ exc.type = "SolutionNotFoundError"
     /\ globbed = <<>>
     /\ todo = {}
     /\ test_suite = <<>>
     /\ opened = {}
     /\ probed \subseteq {PathJoin(game_dir, SolutionName)}
     /\ launched = <<>>
     /\ child = {}

\* The run has ended that way in a directory that holds input fixtures.
C5_Witness ==
  /\ pc = "exited"
  /\ game_dir = GameDemo
  /\ SolutionName \notin files
  /\ InputFiles(files) # {}
  /\ OutputFiles(files) # {}
  /\ exc.type = "SolutionNotFoundError"

\* run() returned, having paired, run and reported OK every input fixture.
EveryFixturePassed ==
  /\ exc = NoExc
  /\ \A input_test \in Glob(game_dir) :
       /\ \E k \in 1..Len(test_suite) : test_suite[k][1] = input_test
       /\ \E k \in 1..Len(launched) : launched[k] = input_test
       /\ Reported(stdout, input_test, MsgOK)

(* C6.  The program ends with status 0 exactly when it ends by printing     *)
(* Bravo, and exactly when the argument is valid, an entry was selected and *)
(* every fixture of the directory was paired, run and reported OK; in every *)
(* other case it ends with status 1, and Bravo is printed nowhere else.     *)
C6_ExitCodeContract ==
  /\ pc # "exited" => (exit_code = -1 /\ ~Contains(stdout, MsgBravo))
  /\ pc = "exited" =>
       /\ exit_code \in {0, 1}
       /\ exit_code = 0 <=> Contains(stdout, MsgBravo)
       /\ exit_code = 0 =>
            stdout = SubSeq(stdout, 1, Len(stdout) - Len(MsgBravo) - 1) \o MsgBravo \o <<NL>>
       /\ exit_code = 0 <=>
            (Len(argv) = 2 /\ MatchesGame(argv[2]) /\ game_dir \in RootEntries
               /\ SolutionName \in DirFiles(game_dir) /\ EveryFixturePassed)

\* The program has ended with Bravo after two fixtures passed.
C6_Witness ==
  /\ pc = "exited"
  /\ exit_code = 0
  /\ Len(launched) = 2
  /\ Contains(stdout, MsgBravo)

\* Both starts printed the same OK and FAIL lines for the input fixtures.
SameOutcomes ==
  \A input_test \in Glob(game_dir) : \A v \in {MsgOK, MsgFAIL} :
    Reported(prev.stdout, input_test, v) <=> Reported(stdout, input_test, v)

BothRunsEnded == pc = "exited" /\ runNo > 1 /\ prev.game_dir = game_dir

(* C7, for any two listings.  Two starts on the same directory report the   *)
(* same fixtures with the same outcomes, whatever order each listing had.   *)
C7_SameOutcomesAnyOrder == BothRunsEnded => SameOutcomes

(* C7, for equal listings.  Two starts on the same directory report the     *)
(* same fixtures with the same outcomes when both listings came in the same *)
(* order; when the orders differ, a fixture reported by both has the same   *)
(* outcome.                                                                *)
C7_SameOutcomesSameOrder ==
  BothRunsEnded =>
    /\ prev.globbed = globbed => SameOutcomes
    /\ \A input_test \in Glob(game_dir) :
         /\ ~(Reported(prev.stdout, input_test, MsgOK)
                /\ Reported(stdout, input_test, MsgFAIL))
         /\ ~(Reported(prev.stdout, input_test, MsgFAIL)
                /\ Reported(stdout, input_test, MsgOK))

\* Two runs in the same order have reported an OK and then a FAIL.
C7_Witness ==
  /\ BothRunsEnded
  /\ prev.globbed = globbed
  /\ Len(test_suite) = 2
  /\ Reported(stdout, test_suite[1][1], MsgOK)
  /\ Reported(stdout, test_suite[2][1], MsgFAIL)
  /\ Reported(prev.stdout, test_suite[2][1], MsgFAIL)

(* C8.  When the run aborts with MissingTestOutputError, the text printed   *)
(* after "Your solution does not work. Error: " contains the input fixture  *)
(* path and the missing output fixture path.                                *)
C8_MessageHasBothPaths ==
  (pc = "exited" /\ exc.type = "MissingTestOutputError")
  => /\ Contains(AfterError(stdout), exc.test_output)
     /\ Contains(AfterError(stdout), exc.test_input)

(* C9.  At most one child exists; the children were started for the pairs   *)
(* of test_suite in order, each once; a child that exists is the last one   *)
(* started; every pair before the last one started has exited and been     *)
(* reported OK.                                                            *)
C9_OneChildInOrder ==
  /\ Cardinality(child) <= 1
  /\ Len(launched) <= Len(test_suite)
  /\ \A k \in 1..Len(launched) : launched[k] = test_suite[k][1]
  /\ \A k \in 1..Len(launched) : \A m \in 1..Len(launched) :
       launched[k] = launched[m] => k = m
  /\ child # {} => (pc = "child" /\ child = {launched[Len(launched)]})
  /\ \A k \in 1..(Len(launched) - 1) :
       /\ launched[k] \notin child
       /\ Reported(stdout, launched[k], MsgOK)
  /\ pc \in {"loop", "child", "captured"} => Len(launched) \in {idx - 1, idx}

\* The second child runs.
C9_Witness ==
  /\ pc = "child"
  /\ Len(launched) = 2
  /\ child = {launched[2]}

(* C10.  A comparison that ends with OK has a diff without deleted lines,   *)
(* and the actual lines are then a subsequence of the stripped expected     *)
(* lines; a diff with a deleted line ends with FAIL.                        *)
C10_OkMeansNoDeletion ==
  /\ JustPassed =>
       /\ Reported(stdout, LastInput, MsgOK)
       /\ ~HasDeleted(diffs)
       /\ IsSubsequence(output, expected_output)
  /\ ((JustPassed \/ JustFailed) /\ HasDeleted(diffs)) =>
       /\ JustFailed
       /\ Reported(stdout, LastInput, MsgFAIL)

\* A comparison has ended with OK although the actual output is not the
\* expected one.
C10_Witness ==
  /\ JustPassed
  /\ output # expected_output
  /\ output # <<>>
  /\ Reported(stdout, LastInput, MsgOK)

====
